---- MODULE Spec2Model ----
(***************************************************************************)
(* Model of the Unity asset extractor / repacker.                          *)
(*                                                                         *)
(*   bundle_tool.py  the "safe pipeline" tool (class UnityBundleTool and   *)
(*                   its command line), specification SpecSafe             *)
(*   main.py         the "advanced filtered" tool, specification SpecAdv   *)
(*   main.py         name resolution (get_object_name), SpecName           *)
(*                                                                         *)
(* The container codec (UnityPy) and the image codec (PIL) are external:   *)
(* a load, a payload read/write or a save either succeeds or raises, and   *)
(* which of the two is an input of the step that makes the call.           *)
(*                                                                         *)
(* Strings are sequences of tokens.  A token is a run of word characters   *)
(* ("Icon"), one punctuation or blank character ("@", " "), a file         *)
(* extension (".bundle") or one of the fixed affixes the code adds         *)
(* ("modified_", "_extracted").  A path is a sequence of such names.       *)
(***************************************************************************)
EXTENDS Naturals, Sequences, FiniteSets, TLC

VARIABLES fs, proc, tasks, mod_log, wopens, warned, runs, nm

vars == <<fs, proc, tasks, mod_log, wopens, warned, runs, nm>>

(***************************************************************************)
(* Bounds of the model.                                                    *)
(***************************************************************************)
\* process invocations followed in one behaviour (what earlier invocations
\* left behind is on the initial disk)
MaxRuns == 1
\* process invocations of the advanced tool followed in one behaviour
MaxAdvRuns == 1
\* tokens in a declared object name (SpecName)
MaxNameLen == 2

(***************************************************************************)
(* Strings and paths.                                                      *)
(***************************************************************************)
\* str.strip(): leading and trailing whitespace removed
Whitespace == {" ", "\t"}

RECURSIVE LStrip(_)
LStrip(s) ==
    IF s # <<>> /\ Head(s) \in Whitespace THEN LStrip(Tail(s)) ELSE s

RECURSIVE RStrip(_)
RStrip(s) ==
    IF s # <<>> /\ s[Len(s)] \in Whitespace
    THEN RStrip(SubSeq(s, 1, Len(s) - 1))
    ELSE s

Strip(s) == RStrip(LStrip(s))

\* the tokens that are file extensions (a dot and a suffix)
ExtTokens == {".bundle", ".unity3d", ".assets", ".json", ".txt", ".png",
              ".xml", ".bytes", ".meta"}

\* characters outside the class [\w.\- ] of sanitize_filename
Disallowed == {"@", "/", "\t", ":"}

IsAllowedTok(t) == t \notin Disallowed

\* os.path.join(p, name)
Join(p, name) == Append(p, name)

\* os.path.basename(p), os.path.dirname(p)
Basename(p) == p[Len(p)]

Dirname(p) == SubSeq(p, 1, Len(p) - 1)

\* os.path.splitext(name)[0] and Path(name).stem
Stem(name) ==
    IF Len(name) > 1 /\ name[Len(name)] \in ExtTokens
    THEN SubSeq(name, 1, Len(name) - 1)
    ELSE name

\* name.endswith(ext), name.startswith(prefix)
EndsWith(name, ext) == name # <<>> /\ name[Len(name)] = ext

StartsWith(name, prefix) == name # <<>> /\ name[1] = prefix

\* what the user types: a path relative to the working directory or absolute
RelPath(comps) == [rel |-> TRUE, comps |-> comps]

AbsPath(comps) == [rel |-> FALSE, comps |-> comps]

\* os.path.abspath(os.path.expanduser(p)), and the resolution open() makes
Abspath(cwd, p) == IF p.rel THEN cwd \o p.comps ELSE p.comps

(***************************************************************************)
(* Name resolution (main.py).                                              *)
(***************************************************************************)
\* re.sub(r'[^\w.\- ]', '', name).strip()
sanitize_filename(name) == Strip(SelectSeq(name, IsAllowedTok))

\* an attribute of a payload object: absent, not a string, or a string
NoAttr == [has |-> FALSE, str |-> FALSE, val |-> <<>>]

NonStrAttr == [has |-> TRUE, str |-> FALSE, val |-> <<>>]

StrAttr(s) == [has |-> TRUE, str |-> TRUE, val |-> s]

AttrUsable(a) == a.has /\ a.str /\ Strip(a.val) # <<>>

\* f"{obj_type}_{path_id}"
TypeIdName(obj_type, path_id) == <<obj_type, "_", ToString(path_id)>>

get_object_name(data, obj_type, path_id) ==
    IF AttrUsable(data.name) THEN sanitize_filename(data.name.val)
    ELSE IF AttrUsable(data.m_Name) THEN sanitize_filename(data.m_Name.val)
    ELSE IF AttrUsable(data.m_ClassName)
         THEN sanitize_filename(data.m_ClassName.val)
    ELSE TypeIdName(obj_type, path_id)

(***************************************************************************)
(* The file system.  fs maps each existing path to its entry.              *)
(***************************************************************************)
Entry(kind, objs, data, log) ==
    [kind |-> kind, objs |-> objs, data |-> data, log |-> log]

DirEntry == Entry("dir", <<>>, "", <<>>)

\* a container file holding the objects objs
BundleEntry(objs) == Entry("bundle", objs, "", <<>>)

\* an extracted asset file holding the bytes data
AssetEntry(data) == Entry("asset", <<>>, data, <<>>)

\* modifications.json holding the JSON array log
LedgerEntry(log) == Entry("ledger", <<>>, "", log)

\* a file just opened with mode "w"/"wb": truncated, nothing written yet
EmptyEntry == Entry("empty", <<>>, "", <<>>)

\* a file two writers wrote at the same time
GarbledEntry == Entry("garbled", <<>>, "", <<>>)

\* os.path.exists, os.path.isfile, os.path.isdir
Exists(f, p) == p \in DOMAIN f

IsFile(f, p) == p \in DOMAIN f /\ f[p].kind # "dir"

IsDir(f, p) == p \in DOMAIN f /\ f[p].kind = "dir"

\* open(p, "w") / open(p, "wb") followed by a write of entry e
WriteFile(f, p, e) == (p :> e) @@ f

Prefixes(p) == {SubSeq(p, 1, n) : n \in 1..Len(p)}

\* os.makedirs(p, exist_ok=True) raises when a file is in the way
MakedirsOk(f, p) == \A q \in Prefixes(p) : q \in DOMAIN f => f[q].kind = "dir"

Makedirs(f, p) ==
    [q \in (DOMAIN f) \cup Prefixes(p) |->
        IF q \in DOMAIN f THEN f[q] ELSE DirEntry]

\* os.listdir(dir): the names of the entries of dir
Listdir(f, dir) ==
    {Basename(q) : q \in {r \in DOMAIN f : Len(r) = Len(dir) + 1
                                            /\ Dirname(r) = dir}}

\* the sequences that enumerate the set S
Orderings(S) ==
    {s \in [1..Cardinality(S) -> S] :
        \A i, j \in 1..Cardinality(S) : i # j => s[i] # s[j]}

\* the order in which os.listdir enumerates S: one fixed order, since the
\* pool runs the items of a batch side by side whatever their order
ListOrder(S) == CHOOSE s \in Orderings(S) : TRUE

(***************************************************************************)
(* Containers and payloads (the part of UnityPy the tools rely on).        *)
(***************************************************************************)
Obj(type, path_id, m_Name, payload) ==
    [type |-> type, path_id |-> path_id, m_Name |-> m_Name,
     payload |-> payload]

\* which calls raise during one operation on one container: the load, the
\* final save, obj.read() of some objects, the payload conversion (image
\* decode/encode, file read/write) of some objects, and the open of
\* modifications.json (a working directory that cannot be written)
NoFail ==
    [load |-> FALSE, save |-> FALSE, read |-> {}, conv |-> {}, log |-> FALSE]

\* the cases followed: at most one call raises in one operation.  Only a
\* repack saves a container; verify converts nothing, and in unpack a failing
\* conversion is the same as a failing read
FailCases(kind) ==
    {NoFail, [NoFail EXCEPT !.load = TRUE]}
    \cup (IF kind = "verify" THEN {} ELSE {[NoFail EXCEPT !.read = {1}]})
    \cup (IF kind \in {"repack", "extract"}
          THEN {[NoFail EXCEPT !.conv = {1}]} ELSE {})
    \cup (IF kind = "repack"
          THEN {[NoFail EXCEPT !.save = TRUE], [NoFail EXCEPT !.log = TRUE]}
          ELSE {})

\* UnityPy.load(path).objects: a file that is no container has no objects
LoadObjects(f, p) == IF f[p].kind = "bundle" THEN f[p].objs ELSE <<>>

\* text payloads by what _determine_extension looks at
BraceTexts == {"{}", "{\"x\":1}"}

AngleTexts == {"<a/>"}

NonUtf8Texts == {"\\xff"}

(***************************************************************************)
(* bundle_tool.py: extraction.                                             *)
(***************************************************************************)
_determine_extension(content) ==
    IF content \in NonUtf8Texts THEN ".bytes"
    ELSE IF content \in BraceTexts THEN ".json"
    ELSE IF content \in AngleTexts THEN ".xml"
    ELSE ".txt"

\* data.m_Name or f"texture_{obj.path_id}" / f"textasset_{obj.path_id}"
SafeName(o, fallback) ==
    IF o.m_Name # <<>> THEN o.m_Name ELSE <<fallback, ToString(o.path_id)>>

\* the file _extract_texture writes for o under output_dir
_extract_texture(o, output_dir) ==
    Join(output_dir, SafeName(o, "texture_") \o <<".png">>)

\* the file _extract_text_asset writes for o under output_dir
_extract_text_asset(o, output_dir) ==
    Join(output_dir,
         SafeName(o, "textasset_") \o <<_determine_extension(o.payload)>>)

\* the loop of unpack over objs[i..]: an exception of one object leaves the
\* loop.  done: the objects extracted; wr: the files written
RECURSIVE UnpackLoop(_, _, _, _, _, _, _)
UnpackLoop(f, objs, i, output_dir, fail, done, wr) ==
    IF i > Len(objs) THEN [fs |-> f, ok |-> TRUE, done |-> done, wr |-> wr]
    ELSE LET o == objs[i]
             sub == IF o.type = "Texture2D" THEN "Textures" ELSE "TextAssets"
             p == IF o.type = "Texture2D"
                  THEN _extract_texture(o, Join(output_dir, <<sub>>))
                  ELSE _extract_text_asset(o, Join(output_dir, <<sub>>))
         IN  IF o.type \notin {"Texture2D", "TextAsset"}
             THEN UnpackLoop(f, objs, i + 1, output_dir, fail, done, wr)
             ELSE IF i \in fail.read \cup fail.conv
             THEN [fs |-> f, ok |-> FALSE, done |-> done, wr |-> wr]
             ELSE UnpackLoop(WriteFile(f, p, AssetEntry(o.payload)), objs,
                             i + 1, output_dir, fail, done \cup {i},
                             wr \cup {p})

\* f"{base_name}_extracted" beside the container
ExtractedDir(bundle_path) ==
    Join(Dirname(bundle_path), Stem(Basename(bundle_path)) \o <<"_extracted">>)

\* UnityBundleTool.unpack(bundle_path) on the file system f
unpack(f, bundle_path, fail) ==
    LET output_dir == ExtractedDir(bundle_path)
        tex == Join(output_dir, <<"Textures">>)
        txt == Join(output_dir, <<"TextAssets">>)
        f1 == Makedirs(Makedirs(f, tex), txt)
        none == [fs |-> f, ok |-> FALSE, done |-> {}, wr |-> {}]
    IN  IF ~IsFile(f, bundle_path) THEN none
        ELSE IF ~(MakedirsOk(f, tex) /\ MakedirsOk(f, txt)) THEN none
        ELSE IF fail.load THEN [none EXCEPT !.fs = f1]
        ELSE UnpackLoop(f1, LoadObjects(f, bundle_path), 1, output_dir, fail,
                        {}, {})

(***************************************************************************)
(* bundle_tool.py: repack and the modification ledger.                     *)
(***************************************************************************)
\* the extensions _replace_text_asset tries, in its order
TextExts == <<".txt", ".json", ".xml", ".bytes">>

\* the first file name{ext} of dir that exists and can be read, from the
\* k-th extension on; <<>> when there is none
RECURSIVE FirstTextFile(_, _, _, _)
FirstTextFile(f, dir, name, k) ==
    IF k > Len(TextExts) THEN <<>>
    ELSE LET p == Join(dir, name \o <<TextExts[k]>>)
         IN  IF IsFile(f, p) THEN p ELSE FirstTextFile(f, dir, name, k + 1)

\* a _replace_texture that loads whatever image the folder holds
_replace_texture_any(f, o, i, textures_dir, fail) ==
    LET pngs == {q \in DOMAIN f : Dirname(q) = textures_dir
                                   /\ IsFile(f, q)
                                   /\ EndsWith(Basename(q), ".png")}
    IN  IF pngs # {} /\ i \notin fail.conv
        THEN CHOOSE q \in pngs : TRUE ELSE <<>>

\* the file _replace_texture loads for o (<<>>: none); a failing decode is
\* caught there and the object is left alone
_replace_texture(f, o, i, textures_dir, fail) ==
    LET png_path == Join(textures_dir, SafeName(o, "texture_") \o <<".png">>)
    IN  IF Exists(f, png_path) /\ i \notin fail.conv /\ IsFile(f, png_path)
        THEN png_path ELSE <<>>

\* the file _replace_text_asset loads for o (<<>>: none)
_replace_text_asset(f, o, i, textassets_dir, fail) ==
    IF i \in fail.conv THEN <<>>
    ELSE FirstTextFile(f, textassets_dir, SafeName(o, "textasset_"), 1)

\* f"Texture: {name}" / f"TextAsset: {name}"
Change(label, o) == [label |-> label, name |-> o.m_Name]

\* the loop of repack over objs[i..].  ok: no exception left the loop;
\* objs: the objects of the environment after it; changes: the list built
RECURSIVE RepackLoop(_, _, _, _, _, _)
RepackLoop(f, objs, i, modified_folder, fail, changes) ==
    IF i > Len(objs) THEN [ok |-> TRUE, objs |-> objs, changes |-> changes]
    ELSE LET o == objs[i]
             textures_dir == Join(modified_folder, <<"Textures">>)
             textassets_dir == Join(modified_folder, <<"TextAssets">>)
             isTex == o.type = "Texture2D" /\ Exists(f, textures_dir)
             isTxt == ~isTex /\ o.type = "TextAsset"
                      /\ Exists(f, textassets_dir)
             src == IF isTex
                    THEN _replace_texture(f, o, i, textures_dir, fail)
                    ELSE _replace_text_asset(f, o, i, textassets_dir, fail)
         IN  IF ~(isTex \/ isTxt)
             THEN RepackLoop(f, objs, i + 1, modified_folder, fail, changes)
             ELSE IF i \in fail.read
             THEN [ok |-> FALSE, objs |-> objs, changes |-> changes]
             ELSE IF src = <<>>
             THEN RepackLoop(f, objs, i + 1, modified_folder, fail, changes)
             ELSE RepackLoop(f, [objs EXCEPT ![i].payload = f[src].data],
                             i + 1, modified_folder, fail,
                             Append(changes,
                                    Change(IF isTex THEN "Texture"
                                           ELSE "TextAsset", o)))

\* f"modified_{basename}" beside the input
OutputPath(input_bundle) ==
    Join(Dirname(input_bundle), <<"modified_">> \o Basename(input_bundle))

\* lines 133-164 of UnityBundleTool.repack: everything before the call of
\* _log_modification.  logs: that call is reached; wr: files opened for
\* writing
repack(f, input_bundle, folder, compress, fail) ==
    LET modified_folder ==
            IF folder # <<>> THEN folder ELSE ExtractedDir(input_bundle)
        loop == RepackLoop(f, LoadObjects(f, input_bundle), 1,
                           modified_folder, fail, <<>>)
        output_path == OutputPath(input_bundle)
        packer == IF compress THEN "lz4" ELSE "none"
        none == [fs |-> f, logs |-> FALSE, changes |-> <<>>, out |-> <<>>,
                 wr |-> {}]
    IN  IF ~IsFile(f, input_bundle) THEN none
        ELSE IF fail.load THEN none
        ELSE IF ~loop.ok THEN none
        ELSE IF loop.changes = <<>> THEN none
        ELSE IF IsDir(f, output_path) THEN none
        ELSE IF fail.save
        THEN [none EXCEPT !.fs = WriteFile(f, output_path, EmptyEntry),
                          !.changes = loop.changes, !.wr = {output_path}]
        ELSE [fs |-> WriteFile(f, output_path,
                               Entry("bundle", loop.objs, packer, <<>>)),
              logs |-> TRUE, changes |-> loop.changes, out |-> output_path,
              wr |-> {output_path}]

\* the entry _log_modification builds (the timestamp is left out)
LogEntry(original, modified, changes) ==
    [original |-> Basename(original), modified |-> Basename(modified),
     changes |-> changes]

\* open("modifications.json", "w"): relative to the working directory
LedgerName == <<"modifications", ".json">>

LedgerPath(cwd) == Abspath(cwd, RelPath(<<LedgerName>>))

(***************************************************************************)
(* The world the tools run in.                                             *)
(***************************************************************************)
\* two directories: D holds the containers, W is another working directory
D == << <<"d">> >>

W == << <<"w">> >>

NmA == <<"a", ".bundle">>

NmB == <<"b", ".bundle">>

NmModA == <<"modified_", "a", ".bundle">>

\* the objects of the containers on disk
BaseObjs ==
    <<Obj("Texture2D", 1, <<"Icon">>, "img0"),
      Obj("TextAsset", 2, <<"Config">>, "{}")>>

OtherObjs ==
    <<Obj("TextAsset", 5, <<>>, "hello"), Obj("Mesh", 6, <<"Body">>, "mesh0")>>

ObjsOf(name) == IF name = NmB THEN OtherObjs ELSE BaseObjs

\* per container of D: 0 absent, 1 present, 2 present and already unpacked,
\* 3 unpacked and then edited by the user.  D/modifications.json is absent
\* (0), a container that was unpacked (2), or the ledger that an earlier
\* process left when it repacked a.bundle (1)
DiskChoices ==
    {c \in [{NmA, NmB, NmModA, LedgerName} -> 0..3] :
        /\ c[NmA] \in {1, 2, 3}
        /\ c[NmB] \in {0, 2}
        /\ c[NmModA] \in {0, 2}
        /\ c[LedgerName] \in {0, 1, 2}
        /\ c[LedgerName] = 1 => c[NmA] \in {2, 3} /\ c[NmModA] = 2}

\* the record of that earlier repack
EarlierRecord ==
    LogEntry(Join(D, NmA), OutputPath(Join(D, NmA)),
             <<Change("Texture", BaseObjs[1]), Change("TextAsset", BaseObjs[2])>>)

\* os.remove(p)
RemoveFile(f, p) == [q \in (DOMAIN f) \ {p} |-> f[q]]

\* what the user does to an extracted folder between extraction and repack:
\* the texture file is replaced by a new image under another name, the text
\* file gets new content
EditedText == "{\"x\":1}"

OtherPng == <<"Other", ".png">>

UserEdit(f, texture_file, text_file) ==
    WriteFile(WriteFile(RemoveFile(f, texture_file),
                        Join(Dirname(texture_file), OtherPng),
                        AssetEntry("img1")),
              text_file, AssetEntry(EditedText))

WithBundle(f, c, name) ==
    IF c[name] = 0 THEN f
    ELSE IF name = LedgerName /\ c[name] = 1
    THEN WriteFile(f, Join(D, name), LedgerEntry(<<EarlierRecord>>))
    ELSE WriteFile(f, Join(D, name), Entry("bundle", ObjsOf(name), "lz4", <<>>))

Unpacked(f, c, name) ==
    IF c[name] \in {2, 3} THEN unpack(f, Join(D, name), NoFail).fs ELSE f

InitDisk(c) ==
    LET f0 == (D :> DirEntry) @@ (W :> DirEntry)
        f1 == WithBundle(WithBundle(WithBundle(WithBundle(f0, c, NmA), c, NmB),
                                    c, NmModA), c, LedgerName)
        f2 == Unpacked(Unpacked(Unpacked(Unpacked(f1, c, NmA), c, NmB), c,
                                NmModA), c, LedgerName)
        folder == ExtractedDir(Join(D, NmA))
    IN  IF c[NmA] = 3
        THEN UserEdit(f2,
                      _extract_texture(BaseObjs[1], Join(folder, <<"Textures">>)),
                      _extract_text_asset(BaseObjs[2],
                                          Join(folder, <<"TextAssets">>)))
        ELSE f2

\* a command line: the command word and what follows it
FlagItem(text) == [flag |-> TRUE, text |-> text, path |-> RelPath(<<>>)]

PathItem(p) == [flag |-> FALSE, text |-> "", path |-> p]

IsFlagItem(a) == a.flag

IsPathItem(a) == ~a.flag

NoProc ==
    [status |-> "none", tool |-> "", cmd |-> "", nargs |-> 0, cwd |-> <<>>,
     exit |-> 0, raised |-> FALSE, compress |-> TRUE, types |-> {},
     flat |-> FALSE]

NoName == [phase |-> "off", data |-> <<>>, obj_type |-> "", path_id |-> 0,
           out |-> <<>>]

(***************************************************************************)
(* bundle_tool.py: the command line and the worker pool.                   *)
(***************************************************************************)
\* ThreadPoolExecutor(max_workers=4)
MaxWorkers == 4

SafeCommands ==
    {"", "unpack", "batch-unpack", "repack", "REPACK", "batch-repack",
     "verify", "history", "frobnicate"}

\* sys.argv[1].lower()
Lower(cmd) == IF cmd = "REPACK" THEN "repack" ELSE cmd

\* the paths the user passes to the safe pipeline
SafePaths ==
    {AbsPath(Join(D, NmA)), RelPath(<<LedgerName>>), AbsPath(D),
     AbsPath(Join(D, <<"c", ".bundle">>))}

SafeRests ==
    {<<>>, <<FlagItem("--fast")>>, <<FlagItem("--fast"), PathItem(AbsPath(D))>>}
    \cup {<<PathItem(p)>> : p \in SafePaths}

\* one call of unpack, repack or verify_assets, by the main thread or by a
\* worker of the pool.  pc: queued, log (repack is about to call
\* _log_modification), dump (it holds modifications.json open), done.
\* prev remembers the records modifications.json held when the call opened it
Task(kind, input, folder, thread) ==
    [kind |-> kind, input |-> input, folder |-> folder, thread |-> thread,
     pc |-> "queued", result |-> FALSE, changes |-> <<>>, out |-> <<>>,
     fail |-> NoFail, done |-> {}, raced |-> FALSE, prev |-> <<>>]

\* lines 180-189: the (bundle, extracted folder) pairs of batch_repack
RepackCandidates(f, directory) ==
    {file \in Listdir(f, directory) :
        /\ EndsWith(file, ".bundle")
        /\ ~StartsWith(file, "modified_")
        /\ Exists(f, Join(directory, Stem(file) \o <<"_extracted">>))}

\* line 117: the bundles of batch_unpack
UnpackCandidates(f, directory) ==
    {file \in Listdir(f, directory) : EndsWith(file, ".bundle")}

Exited(p, code) == [p EXCEPT !.status = "exited", !.exit = code]

\* main() of bundle_tool.py up to the point where the operation runs:
\* the process is created (the ledger starts empty), the command line is
\* parsed, the batch is listed.  listFails: os.listdir raises
SafeInvoke(cmdword, rest, cwd, listFails) ==
    LET command == Lower(cmdword)
        args == SelectSeq(rest, IsPathItem)
        flags == SelectSeq(rest, IsFlagItem)
        compress == \A k \in 1..Len(flags) : flags[k].text # "--fast"
        p0 == [NoProc EXCEPT !.status = "running", !.tool = "safe",
                             !.cmd = cmdword, !.nargs = Len(args),
                             !.cwd = cwd,
                             !.compress = compress]
        path == Abspath(cwd, args[1].path)
    IN  /\ proc.status # "running"
        /\ runs < MaxRuns
        /\ listFails => command \in {"batch-unpack", "batch-repack"}
                         /\ Len(args) >= 1 /\ IsDir(fs, path)
        /\ runs' = runs + 1
        /\ mod_log' = <<>>
        /\ wopens' = {}
        /\ warned' = {}
        /\ UNCHANGED <<fs, nm>>
        /\ IF cmdword \in {"", "help"}
           THEN proc' = Exited(p0, 0) /\ tasks' = <<>>
           ELSE IF command \notin {"unpack", "batch-unpack", "repack",
                                   "batch-repack", "verify", "history"}
           THEN proc' = Exited(p0, 1) /\ tasks' = <<>>
           ELSE IF command = "history"
           THEN proc' = Exited(p0, 0) /\ tasks' = <<>>
           ELSE IF Len(args) < 1
           THEN proc' = Exited(p0, 1) /\ tasks' = <<>>
           ELSE IF command \in {"unpack", "repack", "verify"}
           THEN /\ proc' = p0
                /\ tasks' = <<Task(command, path, <<>>, "main")>>
           ELSE IF ~IsDir(fs, path)
           THEN proc' = Exited(p0, 0) /\ tasks' = <<>>
           ELSE IF listFails
           THEN proc' = Exited([p0 EXCEPT !.raised = TRUE], 1) /\ tasks' = <<>>
           ELSE IF command = "batch-unpack"
           THEN LET order == ListOrder(UnpackCandidates(fs, path))
                IN
                  /\ tasks' = [k \in DOMAIN order |->
                                 Task("unpack", Join(path, order[k]), <<>>,
                                      "worker")]
                  /\ proc' = IF order = <<>> THEN Exited(p0, 0) ELSE p0
           ELSE LET order == ListOrder(RepackCandidates(fs, path))
                IN
                  /\ tasks' = [k \in DOMAIN order |->
                                 Task("repack", Join(path, order[k]),
                                      Join(path, Stem(order[k])
                                                   \o <<"_extracted">>),
                                      "worker")]
                  /\ proc' = IF order = <<>> THEN Exited(p0, 0) ELSE p0

\* executor.map hands the items to at most MaxWorkers threads, in order
CanStart(i) ==
    /\ proc.status = "running"
    /\ proc.tool = "safe"
    /\ i \in DOMAIN tasks
    /\ tasks[i].pc = "queued"
    /\ \A j \in 1..(i - 1) : tasks[j].pc # "queued"
    /\ Cardinality({j \in DOMAIN tasks : tasks[j].pc \notin {"queued", "done"}})
           < MaxWorkers

\* one call of unpack
UnpackRun(i, fail) ==
    LET r == unpack(fs, tasks[i].input, fail)
    IN  /\ CanStart(i)
        /\ tasks[i].kind = "unpack"
        /\ fs' = r.fs
        /\ tasks' = [tasks EXCEPT ![i].pc = "done", ![i].result = r.ok,
                                  ![i].fail = fail, ![i].done = r.done]
        /\ wopens' = wopens \cup {[task |-> i, path |-> q] : q \in r.wr}
        /\ UNCHANGED <<proc, mod_log, warned, runs, nm>>

\* verify_assets: nothing is written; an object with no name or no payload
\* is an issue
VerifyRun(i, fail) ==
    LET objs == LoadObjects(fs, tasks[i].input)
        issues == {k \in DOMAIN objs :
                      /\ objs[k].type \in {"Texture2D", "TextAsset"}
                      /\ \/ objs[k].payload = ""
                         \/ objs[k].type = "Texture2D" /\ objs[k].m_Name = <<>>}
        ok == /\ IsFile(fs, tasks[i].input)
              /\ ~fail.load
              /\ fail.read \cap DOMAIN objs = {}
              /\ issues = {}
    IN  /\ CanStart(i)
        /\ tasks[i].kind = "verify"
        /\ tasks' = [tasks EXCEPT ![i].pc = "done", ![i].result = ok,
                                  ![i].fail = fail]
        /\ UNCHANGED <<fs, proc, mod_log, wopens, warned, runs, nm>>

\* one call of repack up to _log_modification
RepackRun(i, fail) ==
    LET r == repack(fs, tasks[i].input, tasks[i].folder, proc.compress, fail)
    IN  /\ CanStart(i)
        /\ tasks[i].kind = "repack"
        /\ fail.log => r.logs
        /\ fs' = r.fs
        /\ tasks' = [tasks EXCEPT ![i].pc = IF r.logs THEN "log" ELSE "done",
                                  ![i].fail = fail, ![i].changes = r.changes,
                                  ![i].out = r.out]
        /\ wopens' = wopens \cup {[task |-> i, path |-> q] : q \in r.wr}
        /\ UNCHANGED <<proc, mod_log, warned, runs, nm>>

\* the records of modifications.json on disk (none when there is no such
\* file or it holds no JSON array)
LedgerOnDisk(f, cwd) ==
    IF Exists(f, LedgerPath(cwd)) THEN f[LedgerPath(cwd)].log ELSE <<>>

\* _log_modification, lines 354-361: the entry is appended to the list in
\* memory and modifications.json is opened for writing (truncated).  When
\* the open raises, the handler of repack returns False
LogOpen(i) ==
    LET entry == LogEntry(tasks[i].input, tasks[i].out, tasks[i].changes)
        others == {j \in DOMAIN tasks : tasks[j].pc = "dump"}
    IN  /\ proc.status = "running"
        /\ proc.tool = "safe"
        /\ i \in DOMAIN tasks
        /\ tasks[i].pc = "log"
        /\ mod_log' = Append(mod_log, entry)
        /\ IF tasks[i].fail.log
           THEN /\ tasks' = [tasks EXCEPT ![i].pc = "done"]
                /\ UNCHANGED <<fs, wopens>>
           ELSE /\ fs' = WriteFile(fs, LedgerPath(proc.cwd), EmptyEntry)
                /\ wopens' = wopens \cup
                                {[task |-> i, path |-> LedgerPath(proc.cwd)]}
                /\ tasks' = [j \in DOMAIN tasks |->
                               IF j = i
                               THEN [tasks[j] EXCEPT
                                        !.pc = "dump",
                                        !.raced = others # {},
                                        !.prev = LedgerOnDisk(fs, proc.cwd)]
                               ELSE IF j \in others
                               THEN [tasks[j] EXCEPT !.raced = TRUE]
                               ELSE tasks[j]]
        /\ UNCHANGED <<proc, warned, runs, nm>>

\* _log_modification, line 362: json.dump of the whole list, and the close.
\* Two threads that held the file open together leave either the list of
\* the last one to write or a mix of both
LogDump(i, mixed) ==
    /\ proc.status = "running"
    /\ proc.tool = "safe"
    /\ i \in DOMAIN tasks
    /\ tasks[i].pc = "dump"
    /\ mixed => tasks[i].raced
    /\ fs' = WriteFile(fs, LedgerPath(proc.cwd),
                       IF mixed THEN GarbledEntry ELSE LedgerEntry(mod_log))
    /\ tasks' = [tasks EXCEPT ![i].pc = "done", ![i].result = TRUE]
    /\ UNCHANGED <<proc, mod_log, wopens, warned, runs, nm>>

\* a main() whose exit code tells whether the operation succeeded
SafeExitByResult ==
    /\ proc.status = "running"
    /\ proc.tool = "safe"
    /\ \A i \in DOMAIN tasks : tasks[i].pc = "done"
    /\ proc' = Exited(proc, IF \A i \in DOMAIN tasks : tasks[i].result
                            THEN 0 ELSE 1)
    /\ UNCHANGED <<fs, tasks, mod_log, wopens, warned, runs, nm>>

\* the operation returned (the pool is drained): main() returns, exit code 0
SafeExit ==
    /\ proc.status = "running"
    /\ proc.tool = "safe"
    /\ \A i \in DOMAIN tasks : tasks[i].pc = "done"
    /\ proc' = Exited(proc, 0)
    /\ UNCHANGED <<fs, tasks, mod_log, wopens, warned, runs, nm>>

InitSafe ==
    /\ \E c \in DiskChoices : fs = InitDisk(c)
    /\ proc = NoProc
    /\ tasks = <<>>
    /\ mod_log = <<>>
    /\ wopens = {}
    /\ warned = {}
    /\ runs = 0
    /\ nm = NoName

NextSafe ==
    \/ \E cmdword \in SafeCommands, rest \in SafeRests, cwd \in {D, W},
          listFails \in BOOLEAN :
         SafeInvoke(cmdword, rest, cwd, listFails)
    \/ \E i \in 1..4, fail \in FailCases("unpack") : UnpackRun(i, fail)
    \/ \E i \in 1..4, fail \in FailCases("verify") : VerifyRun(i, fail)
    \/ \E i \in 1..4, fail \in FailCases("repack") : RepackRun(i, fail)
    \/ \E i \in 1..4 : LogOpen(i)
    \/ \E i \in 1..4, mixed \in BOOLEAN : LogDump(i, mixed)
    \/ SafeExit

SpecSafe == InitSafe /\ [][NextSafe]_vars

(***************************************************************************)
(* main.py: extraction.                                                    *)
(***************************************************************************)
\* obj.read() of o: the attributes get_object_name looks at
DataOf(o) ==
    [name |-> NoAttr, m_Name |-> StrAttr(o.m_Name), m_ClassName |-> NoAttr]

\* should_process_type / the filter of repack_bundle
should_process_type(types, obj_type) == "all" \in types \/ obj_type \in types

\* lines 87-95: save_path of o without its extension, as directory and name
SavePath(o, output_dir, flat) ==
    LET name == get_object_name(DataOf(o), o.type, o.path_id)
    IN  IF flat
        THEN [dir |-> output_dir, name |-> <<o.type, "_">> \o name]
        ELSE [dir |-> Join(output_dir, <<o.type>>), name |-> name]

\* the extension of the file written for an object of the type ("": none)
ExtractExt(obj_type) ==
    IF obj_type = "Texture2D" THEN ".png"
    ELSE IF obj_type = "TextAsset" THEN ".txt"
    ELSE IF obj_type = "Mesh" THEN ".json"
    ELSE ""

\* the loop of extract_bundle_advanced_filtered over objs[i..]: an exception
\* of one object is caught and the loop goes on
RECURSIVE ExtractLoop(_, _, _, _, _, _, _, _, _)
ExtractLoop(f, objs, i, output_dir, types, flat, fail, done, wr) ==
    IF i > Len(objs) THEN [fs |-> f, done |-> done, wr |-> wr]
    ELSE LET o == objs[i]
             sp == SavePath(o, output_dir, flat)
             asset == Join(sp.dir, sp.name \o <<ExtractExt(o.type)>>)
             meta == Join(sp.dir, sp.name \o <<".meta", ".json">>)
             f1 == Makedirs(f, sp.dir)
             f2 == IF ExtractExt(o.type) = "" THEN f1
                   ELSE WriteFile(f1, asset, AssetEntry(o.payload))
             f3 == WriteFile(f2, meta, Entry("meta", <<>>, "", <<>>))
         IN  IF ~should_process_type(types, o.type) \/ i \in fail.read
                \/ ~MakedirsOk(f, sp.dir)
             THEN ExtractLoop(f, objs, i + 1, output_dir, types, flat, fail,
                              done, wr)
             ELSE IF i \in fail.conv
             THEN ExtractLoop(f1, objs, i + 1, output_dir, types, flat, fail,
                              done, wr)
             ELSE ExtractLoop(f3, objs, i + 1, output_dir, types, flat, fail,
                              done \cup {i},
                              wr \cup {meta}
                                 \cup (IF ExtractExt(o.type) = "" THEN {}
                                       ELSE {asset}))

\* extract_bundle_advanced_filtered(bundle_path, output_dir); output_dir
\* <<>> is None.  raised: an exception left the function
extract_bundle_advanced_filtered(f, cwd, bundle_path, output_dir, types, flat, fail) ==
    LET dir == IF output_dir # <<>> THEN output_dir
               ELSE Abspath(cwd, RelPath(<<Stem(Basename(bundle_path))
                                            \o <<"_extracted">>>>))
        none == [fs |-> f, raised |-> FALSE, ok |-> FALSE, done |-> {},
                 wr |-> {}]
        loop == ExtractLoop(Makedirs(f, dir), LoadObjects(f, bundle_path), 1,
                            dir, types, flat, fail, {}, {})
    IN  IF ~Exists(f, bundle_path) THEN none
        ELSE IF ~MakedirsOk(f, dir) THEN [none EXCEPT !.raised = TRUE]
        ELSE IF fail.load \/ IsDir(f, bundle_path)
        THEN [none EXCEPT !.fs = Makedirs(f, dir)]
        ELSE [fs |-> loop.fs, raised |-> FALSE, ok |-> TRUE,
              done |-> loop.done, wr |-> loop.wr]

(***************************************************************************)
(* main.py: repack.                                                        *)
(***************************************************************************)
\* the types repack_bundle can inject
RepackTypes == {"TextAsset", "Texture2D", "Mesh"}

\* the loop of repack_bundle over objs[i..]; updated: the objects replaced
RECURSIVE AdvRepackLoop(_, _, _, _, _, _, _)
AdvRepackLoop(f, objs, i, input_folder, types, fail, updated) ==
    IF i > Len(objs) THEN [objs |-> objs, updated |-> updated]
    ELSE LET o == objs[i]
             name == get_object_name(DataOf(o), o.type, o.path_id)
             file_path == Join(Join(input_folder, <<o.type>>),
                               name \o <<ExtractExt(o.type)>>)
         IN  IF \/ ~should_process_type(types, o.type)
                \/ i \in fail.read \cup fail.conv
                \/ o.type \notin RepackTypes
                \/ ~IsFile(f, file_path)
             THEN AdvRepackLoop(f, objs, i + 1, input_folder, types, fail,
                                updated)
             ELSE AdvRepackLoop(f,
                                [objs EXCEPT ![i].payload = f[file_path].data],
                                i + 1, input_folder, types, fail,
                                Append(updated, Change(o.type, o)))

\* repack_bundle(input_folder, base_bundle, output_path, asset_type);
\* output_path <<>> is None.  raised: an exception left the function
repack_bundle(f, input_folder, base_bundle, output_path, types, fail) ==
    LET loop == AdvRepackLoop(f, LoadObjects(f, base_bundle), 1, input_folder,
                              types, fail, <<>>)
        none == [fs |-> f, raised |-> TRUE, updated |-> <<>>, wr |-> {}]
    IN  IF ~IsFile(f, base_bundle) \/ fail.load THEN none
        ELSE IF fail.save \/ output_path = <<>> \/ IsDir(f, output_path)
                \/ ~IsDir(f, Dirname(output_path))
        THEN [none EXCEPT !.updated = loop.updated]
        ELSE [fs |-> WriteFile(f, output_path,
                               Entry("bundle", loop.objs, "lz4", <<>>)),
              raised |-> FALSE, updated |-> loop.updated,
              wr |-> {output_path}]

(***************************************************************************)
(* main.py: the command line.                                              *)
(***************************************************************************)
NmBU == <<"b", ".unity3d">>

NmAA == <<"a", ".assets">>

Output == <<"output">>

Repacked == <<"repacked">>

\* line 225, line 238: the extensions of a container file
AdvExts == {".bundle", ".unity3d", ".assets"}

IsContainerName(file) == \E e \in AdvExts : EndsWith(file, e)

\* parser.parse_args(): "inputs" (nargs="*") takes every positional that
\* follows the command and leaves none for "output" (nargs="?"): <<>> is None
parse_args(positionals) == [inputs |-> positionals, output |-> <<>>]

\* os.walk(input_dir): the container files below input_dir
WalkFiles(f, input_dir) ==
    {q \in DOMAIN f : /\ Len(q) > Len(input_dir)
                      /\ SubSeq(q, 1, Len(input_dir)) = input_dir
                      /\ IsFile(f, q)
                      /\ IsContainerName(Basename(q))}

\* line 237-238: the container files of base_dir
RepackAllFiles(f, base_dir) ==
    {file \in Listdir(f, base_dir) : IsContainerName(file)}

\* the disk the advanced tool starts on: containers in D, and in W the
\* folders "output" and "repacked" that earlier runs left
\* (3: present, and its folder under "output" is there but empty, as an
\* extraction whose load failed leaves it; 4: extracted and then edited by
\* the user)
AdvDiskChoices ==
    {c \in [{NmA, NmModA, NmBU, NmAA, Repacked} -> 0..4] :
        /\ c[NmA] \in {1, 2, 4}
        /\ c[NmModA] \in {0, 2}
        /\ c[NmBU] \in {0, 3}
        /\ c[NmAA] \in {0, 1}
        /\ c[NmAA] = 1 => c[NmModA] = 0 /\ c[NmBU] = 0
        /\ c[Repacked] \in {0, 1}}

AdvExtracted(f, c, name) ==
    IF c[name] \in {2, 3, 4}
    THEN extract_bundle_advanced_filtered(
             f, W, Join(D, name), Join(Join(W, Output), Stem(name)), {"all"},
             FALSE, IF c[name] \in {2, 4} THEN NoFail
                    ELSE [NoFail EXCEPT !.load = TRUE]).fs
    ELSE f

AdvInitDisk(c) ==
    LET f0 == (D :> DirEntry) @@ (W :> DirEntry)
        f1 == WithBundle(WithBundle(WithBundle(WithBundle(f0, c, NmA), c,
                                               NmModA), c, NmBU), c, NmAA)
        f2 == IF c[Repacked] = 0 THEN f1
              ELSE WriteFile(Makedirs(f1, Join(W, Repacked)),
                             Join(Join(W, Repacked), NmA),
                             Entry("bundle", BaseObjs, "lz4", <<>>))
        f3 == AdvExtracted(AdvExtracted(AdvExtracted(f2, c, NmA), c, NmModA),
                           c, NmBU)
        folder == Join(Join(W, Output), Stem(NmA))
    IN  IF c[NmA] = 4
        THEN UserEdit(f3,
                      Join(Join(folder, <<"Texture2D">>), <<"Icon", ".png">>),
                      Join(Join(folder, <<"TextAsset">>), <<"Config", ".txt">>))
        ELSE f3

\* the positionals the user passes after the command
AdvInputs ==
    {<<>>,
     <<AbsPath(Join(D, NmA))>>,
     <<AbsPath(D)>>,
     <<AbsPath(D), RelPath(<<Output>>)>>,
     <<RelPath(<<Repacked>>), RelPath(<<Output>>)>>,
     <<AbsPath(D), RelPath(<<Output>>), AbsPath(D)>>,
     <<AbsPath(Join(D, NmA)), RelPath(<<Output, <<"a">>>>),
       RelPath(<<<<"out", ".bundle">>>>)>>}

AdvTypeSets == {{"all"}, {"TextAsset"}}

\* main() of main.py up to the first container: the arguments are parsed
\* and the containers of the batch are listed.  order: the order of the
\* listing
AdvInvoke(cmd, positionals, types, flat, order) ==
    LET args == parse_args(positionals)
        p0 == [NoProc EXCEPT !.status = "running", !.tool = "adv",
                             !.cmd = cmd, !.nargs = Len(positionals),
                             !.cwd = W, !.types = types, !.flat = flat]
        crash == Exited([p0 EXCEPT !.raised = TRUE], 1)
        in1 == Abspath(W, args.inputs[1])
        in2 == Abspath(W, args.inputs[2])
        out_base == IF args.output # <<>> THEN args.output
                    ELSE Abspath(W, RelPath(<<Output>>))
        out_dir == IF args.output # <<>> THEN args.output
                   ELSE Abspath(W, RelPath(<<Repacked>>))
    IN  /\ proc.status # "running"
        /\ runs < MaxAdvRuns
        /\ runs' = runs + 1
        /\ wopens' = {}
        /\ warned' = {}
        /\ UNCHANGED <<mod_log, nm>>
        /\ IF cmd = "extract"
           THEN /\ order = <<>>
                /\ fs' = fs
                /\ IF Len(args.inputs) < 1
                   THEN proc' = crash /\ tasks' = <<>>
                   ELSE /\ proc' = p0
                        /\ tasks' = <<Task("extract", in1, args.output, "main")>>
           ELSE IF cmd = "extract-all"
           THEN /\ order = <<>>
                /\ fs' = fs
                /\ IF Len(args.inputs) < 1
                   THEN proc' = crash /\ tasks' = <<>>
                   ELSE LET walk == ListOrder(WalkFiles(fs, in1))
                        IN
                        /\ proc' = IF walk = <<>> THEN Exited(p0, 0) ELSE p0
                        /\ tasks' = [k \in DOMAIN walk |->
                                       Task("extract", walk[k],
                                            Join(out_base,
                                                 Stem(Basename(walk[k]))),
                                            "main")]
           ELSE IF cmd = "repack"
           THEN /\ order = <<>>
                /\ fs' = fs
                /\ IF Len(args.inputs) < 2
                   THEN proc' = crash /\ tasks' = <<>>
                   ELSE /\ proc' = p0
                        /\ tasks' = <<[Task("repack_bundle", in1, in2, "main")
                                         EXCEPT !.out = args.output]>>
           ELSE IF Len(args.inputs) < 2
           THEN order = <<>> /\ fs' = fs /\ proc' = crash /\ tasks' = <<>>
           ELSE IF ~MakedirsOk(fs, out_dir)
           THEN order = <<>> /\ fs' = fs /\ proc' = crash /\ tasks' = <<>>
           ELSE IF ~IsDir(fs, in1)
           THEN /\ order = <<>>
                /\ fs' = Makedirs(fs, out_dir)
                /\ proc' = crash
                /\ tasks' = <<>>
           ELSE /\ order \in Orderings(RepackAllFiles(fs, in1))
                /\ fs' = Makedirs(fs, out_dir)
                /\ proc' = IF order = <<>> THEN Exited(p0, 0) ELSE p0
                /\ tasks' = [k \in DOMAIN order |->
                               [Task("repack_item", Join(in1, order[k]),
                                     Join(in2, Stem(order[k])), "main")
                                  EXCEPT !.out = Join(out_dir, order[k])]]

\* the next container of the loop of main(): one call of
\* extract_bundle_advanced_filtered, or one iteration of repack-all (the
\* folder test, then repack_bundle or the warning), or the repack_bundle of
\* "repack".  An exception that leaves the call ends the process
AdvStep(i, fail) ==
    LET t == tasks[i]
        ex == extract_bundle_advanced_filtered(fs, proc.cwd, t.input, t.folder,
                                               proc.types, proc.flat, fail)
        rp == repack_bundle(fs, t.folder, t.input, t.out, proc.types, fail)
        skip == t.kind = "repack_item" /\ ~Exists(fs, t.folder)
        raised == IF t.kind = "extract" THEN ex.raised ELSE ~skip /\ rp.raised
    IN  /\ proc.status = "running"
        /\ proc.tool = "adv"
        /\ i \in DOMAIN tasks
        /\ t.pc = "queued"
        /\ \A j \in 1..(i - 1) : tasks[j].pc # "queued"
        /\ fail \in FailCases(IF t.kind = "extract" THEN "extract" ELSE "repack")
        /\ ~fail.log
        /\ skip => fail = NoFail
        /\ fs' = IF t.kind = "extract" THEN ex.fs
                 ELSE IF skip THEN fs ELSE rp.fs
        /\ tasks' = [tasks EXCEPT
                       ![i] = IF t.kind = "extract"
                              THEN [t EXCEPT !.pc = "done", !.result = ex.ok,
                                             !.fail = fail, !.done = ex.done]
                              ELSE IF skip THEN [t EXCEPT !.pc = "skipped"]
                              ELSE [t EXCEPT !.pc = "done",
                                             !.result = ~rp.raised,
                                             !.fail = fail,
                                             !.changes = rp.updated]]
        /\ wopens' = wopens \cup
                     {[task |-> i, path |-> q] :
                        q \in IF t.kind = "extract" THEN ex.wr
                              ELSE IF skip THEN {} ELSE rp.wr}
        /\ warned' = IF skip THEN warned \cup {t.input} ELSE warned
        /\ proc' = IF raised THEN Exited([proc EXCEPT !.raised = TRUE], 1)
                   ELSE proc
        /\ UNCHANGED <<mod_log, runs, nm>>

\* the loop is over: main() returns
AdvExit ==
    /\ proc.status = "running"
    /\ proc.tool = "adv"
    /\ \A i \in DOMAIN tasks : tasks[i].pc # "queued"
    /\ proc' = Exited(proc, 0)
    /\ UNCHANGED <<fs, tasks, mod_log, wopens, warned, runs, nm>>

InitAdv ==
    /\ \E c \in AdvDiskChoices : fs = AdvInitDisk(c)
    /\ proc = NoProc
    /\ tasks = <<>>
    /\ mod_log = <<>>
    /\ wopens = {}
    /\ warned = {}
    /\ runs = 0
    /\ nm = NoName

NextAdv ==
    \/ /\ proc.status # "running"
       /\ runs < MaxAdvRuns
       /\ \E cmd \in {"extract", "extract-all", "repack", "repack-all"},
             positionals \in AdvInputs, types \in AdvTypeSets,
             flat \in BOOLEAN,
             order \in UNION {Orderings(S) :
                                 S \in SUBSET {NmA, NmModA, NmBU, NmAA}} :
            AdvInvoke(cmd, positionals, types, flat, order)
    \/ \E i \in 1..4, fail \in FailCases("repack") \cup FailCases("extract") :
         AdvStep(i, fail)
    \/ AdvExit

SpecAdv == InitAdv /\ [][NextAdv]_vars

(***************************************************************************)
(* Name resolution on its own: get_object_name applied to one payload.     *)
(***************************************************************************)
NameToks == {"Icon", " ", "@", ".", "\t"}

\* the strings of at most n tokens
Strings(n) == UNION {[1..k -> NameToks] : k \in 0..n}

\* the payloads: any declared m_Name; a few "name" and "m_ClassName"
NameData ==
    [name : {NoAttr, NonStrAttr, StrAttr(<<" ">>), StrAttr(<<"N", "@">>)},
     m_Name : {NoAttr} \cup {StrAttr(v) : v \in Strings(MaxNameLen)},
     m_ClassName : {NoAttr, StrAttr(<<"@">>), StrAttr(<<"Cls">>)}]

InitName ==
    /\ \E data \in NameData, obj_type \in {"Texture2D", "Mesh"},
          path_id \in {1, 7} :
         nm = [phase |-> "in", data |-> data, obj_type |-> obj_type,
               path_id |-> path_id, out |-> <<>>]
    /\ fs = <<>>
    /\ proc = NoProc
    /\ tasks = <<>>
    /\ mod_log = <<>>
    /\ wopens = {}
    /\ warned = {}
    /\ runs = 0

\* name = get_object_name(data, obj_type, obj.path_id)
ResolveName ==
    /\ nm.phase = "in"
    /\ nm' = [nm EXCEPT !.phase = "out",
                        !.out = get_object_name(nm.data, nm.obj_type,
                                                nm.path_id)]
    /\ UNCHANGED <<fs, proc, tasks, mod_log, wopens, warned, runs>>

NextName == ResolveName

SpecName == InitName /\ [][NextName]_vars

(***************************************************************************)
(* Both tools: a behaviour follows the command lines of one of them.       *)
(***************************************************************************)
InitTools == InitSafe \/ InitAdv

NextTools ==
    \/ /\ proc.tool # "adv"
       /\ NextSafe
    \/ /\ proc.tool # "safe"
       /\ NextAdv

SpecTools == InitTools /\ [][NextTools]_vars

(***************************************************************************)
(* C7.  get_object_name never returns the empty string: when no declared   *)
(* name survives (each is absent, blank, or empty once the characters      *)
(* outside the allow-list are removed and the rest is trimmed), the        *)
(* resolved name is "<type>_<identifier>".                                 *)
(***************************************************************************)
\* the first declared name that is a non-blank string, as the code picks it
DeclaredName(data) ==
    IF AttrUsable(data.name) THEN data.name.val
    ELSE IF AttrUsable(data.m_Name) THEN data.m_Name.val
    ELSE IF AttrUsable(data.m_ClassName) THEN data.m_ClassName.val
    ELSE <<>>

C7_NameNeverEmpty ==
    nm.phase = "out" =>
        /\ nm.out # <<>>
        /\ sanitize_filename(DeclaredName(nm.data)) = <<>>
               => nm.out = TypeIdName(nm.obj_type, nm.path_id)

(***************************************************************************)
(* C1.  Safe-pipeline repack: a call that returns True wrote its output to *)
(* <dir>/modified_<original_filename>, a path other than its input, and in *)
(* no run is the input container of a repack opened for writing.           *)
(***************************************************************************)
IsSafeRepack(i) == proc.tool = "safe" /\ tasks[i].kind = "repack"

C1_RepackNeverWritesInput ==
    \A i \in DOMAIN tasks :
        IsSafeRepack(i) =>
            /\ tasks[i].result =>
                   /\ tasks[i].out = OutputPath(tasks[i].input)
                   /\ tasks[i].out # tasks[i].input
                   /\ [task |-> i, path |-> tasks[i].out] \in wopens
            /\ \A w \in wopens : w.path # tasks[i].input

(***************************************************************************)
(* C2.  Advanced repack and repack-all: the file repack_bundle writes is   *)
(* never the base container it was given.                                  *)
(***************************************************************************)
IsAdvRepack(i) ==
    proc.tool = "adv" /\ tasks[i].kind \in {"repack_bundle", "repack_item"}

C2_BaseNeverOverwritten ==
    \A i \in DOMAIN tasks :
        IsAdvRepack(i) => [task |-> i, path |-> tasks[i].input] \notin wopens

(***************************************************************************)
(* C3.  A repack that replaced no payload writes no output container and   *)
(* appends no modification record; it ends with a failure result.          *)
(***************************************************************************)
C3_NoChangesNoOutput ==
    \A i \in DOMAIN tasks :
        (IsSafeRepack(i) \/ IsAdvRepack(i))
        /\ tasks[i].pc = "done" /\ tasks[i].changes = <<>>
            => /\ \A w \in wopens : w.task # i
               /\ ~tasks[i].result

(***************************************************************************)
(* C4.  During batch-repack modifications.json is written by the main      *)
(* thread only, after the pool has completed: no worker holds it open for  *)
(* writing, and no two writers hold it open at the same time.              *)
(***************************************************************************)
LedgerWriters == {i \in DOMAIN tasks : tasks[i].pc = "dump"}

C4_LedgerMainThreadOnly ==
    proc.tool = "safe" =>
        /\ \A i \in LedgerWriters : tasks[i].thread = "main"
        /\ Cardinality(LedgerWriters) <= 1

(***************************************************************************)
(* C5.  The ledger on disk is append-only: over successive repack          *)
(* commands, also of several processes, the ledger write of a successful   *)
(* repack leaves in modifications.json every record the file held before,  *)
(* in the same order, followed by the new record.                          *)
(***************************************************************************)
C5_LedgerAppendOnly ==
    [][\A i \in DOMAIN tasks :
          (/\ proc.tool = "safe"
           /\ tasks[i].thread = "main"
           /\ tasks[i].pc = "dump"
           /\ i \in DOMAIN tasks'
           /\ tasks'[i].pc = "done")
              => LedgerOnDisk(fs', proc.cwd)
                     = Append(tasks[i].prev,
                              LogEntry(tasks[i].input, tasks[i].out,
                                       tasks[i].changes))]_vars

(***************************************************************************)
(* C6.  Batch repack calls repack on exactly the container files whose     *)
(* name does not start with "modified_" and whose extracted folder exists; *)
(* every other candidate is skipped with a printed warning.                *)
(***************************************************************************)
C6_BatchRepackSelection ==
    \A i \in DOMAIN tasks :
        proc.tool = "adv" /\ tasks[i].kind = "repack_item" =>
            /\ tasks[i].pc = "done"
                   => ~StartsWith(Basename(tasks[i].input), "modified_")
            /\ tasks[i].pc = "skipped" => tasks[i].input \in warned

(***************************************************************************)
(* C8.  Safe-pipeline command line.  As claimed: the exit code is 1        *)
(* exactly when a required path argument is missing or the command is      *)
(* unknown, and then no operation was started; it is 0 otherwise.          *)
(* As amended: the exit code is also 1 when listing the directory of a     *)
(* batch command raises, which happens before any operation is started.    *)
(***************************************************************************)
PathCommands == {"unpack", "batch-unpack", "repack", "batch-repack", "verify"}

ArgError(p) ==
    \/ p.cmd # "" /\ Lower(p.cmd) \notin PathCommands \cup {"history"}
    \/ Lower(p.cmd) \in PathCommands /\ p.nargs = 0

SafeExited == proc.tool = "safe" /\ proc.status = "exited"

C9_ObjectFailureIsolated ==
    \A i \in DOMAIN tasks :
        (/\ proc.tool = "safe"
         /\ tasks[i].kind = "unpack"
         /\ tasks[i].pc = "done"
         /\ IsFile(fs, tasks[i].input)
         /\ ~tasks[i].fail.load)
            => \A k \in DOMAIN LoadObjects(fs, tasks[i].input) :
                   (/\ LoadObjects(fs, tasks[i].input)[k].type
                           \in {"Texture2D", "TextAsset"}
                    /\ k \notin tasks[i].fail.read \cup tasks[i].fail.conv)
                       => k \in tasks[i].done

(***************************************************************************)
(* C10.  A batch isolates the failure of one container: when the load or   *)
(* the save of one container fails, the other containers of the batch are  *)
(* still processed and the run ends without the exception propagating.     *)
(***************************************************************************)
\* the container of item i is one the batch has to process
Eligible(i) ==
    tasks[i].kind = "extract" \/ Exists(fs, tasks[i].folder)

C10_ContainerFailureIsolated ==
    (/\ proc.tool = "adv"
     /\ proc.cmd \in {"extract-all", "repack-all"}
     /\ proc.status = "exited"
     /\ tasks # <<>>)
        => /\ \A i \in DOMAIN tasks : Eligible(i) => tasks[i].pc = "done"
           /\ proc.exit = 0

(***************************************************************************)
(* C11.  Round trip of the safe pipeline: a repack of a container whose     *)
(* extracted folder holds exactly the files an extraction of that container *)
(* writes (none of them edited) reports zero changes and writes no output   *)
(* container.                                                              *)
(***************************************************************************)
\* every file an extraction of bundle_path writes is on the disk f with the
\* content the extraction gives it
FreshlyExtracted(f, bundle_path) ==
    LET ex == unpack(f, bundle_path, NoFail)
    IN  /\ ex.ok
        /\ ex.wr # {}
        /\ \A q \in ex.wr : Exists(f, q) /\ f[q] = ex.fs[q]

C11_UneditedRepackNoChange ==
    \A i \in DOMAIN tasks :
        (/\ IsSafeRepack(i)
         /\ tasks[i].pc # "queued"
         /\ tasks[i].fail = NoFail
         /\ IsFile(fs, tasks[i].input)
         /\ fs[tasks[i].input].kind = "bundle"
         /\ FreshlyExtracted(fs, tasks[i].input))
            => /\ tasks[i].changes = <<>>
               /\ tasks[i].out = <<>>
               /\ \A w \in wopens : w.task # i

(***************************************************************************)
(* C12.  Repack frame condition, both tools: the container a repack writes *)
(* holds the objects of its input container, one for one, with the same    *)
(* numeric identifiers and types, and every object that has no asset file  *)
(* in the folder, or whose type is not requested or cannot be re-injected, *)
(* has the payload it had in the input.                                    *)
(***************************************************************************)
\* the folder a repack call reads its asset files from
ModifiedFolder(t) ==
    IF t.kind = "repack" /\ t.folder = <<>> THEN ExtractedDir(t.input)
    ELSE t.folder

\* the safe pipeline finds an asset file for o in folder
SafeHasAssetFile(f, o, folder) ==
    \/ /\ o.type = "Texture2D"
       /\ Exists(f, Join(Join(folder, <<"Textures">>),
                         SafeName(o, "texture_") \o <<".png">>))
    \/ /\ o.type = "TextAsset"
       /\ \E k \in DOMAIN TextExts :
              Exists(f, Join(Join(folder, <<"TextAssets">>),
                             SafeName(o, "textasset_") \o <<TextExts[k]>>))

\* the advanced tool is asked for the type of o and finds an asset file
AdvHasAssetFile(f, o, folder, types) ==
    /\ should_process_type(types, o.type)
    /\ o.type \in RepackTypes
    /\ Exists(f, Join(Join(folder, <<o.type>>),
                      get_object_name(DataOf(o), o.type, o.path_id)
                          \o <<ExtractExt(o.type)>>))

\* objsOut is objsIn with no payload changed but those of objects that
\* have an asset file
FrameKept(f, t, objsIn, objsOut, types) ==
    /\ Len(objsOut) = Len(objsIn)
    /\ \A k \in DOMAIN objsIn :
           /\ objsOut[k].path_id = objsIn[k].path_id
           /\ objsOut[k].type = objsIn[k].type
           /\ objsOut[k].m_Name = objsIn[k].m_Name
           /\ ~(IF t.kind = "repack"
                THEN SafeHasAssetFile(f, objsIn[k], ModifiedFolder(t))
                ELSE AdvHasAssetFile(f, objsIn[k], ModifiedFolder(t), types))
                  => objsOut[k].payload = objsIn[k].payload

IsRepackKind(t) == t.kind \in {"repack", "repack_bundle", "repack_item"}

C12_RepackFrame ==
    [][\A i \in DOMAIN tasks :
          (/\ i \in DOMAIN tasks'
           /\ IsRepackKind(tasks[i])
           /\ tasks[i].pc = "queued"
           /\ tasks'[i].pc \notin {"queued", "skipped"}
           /\ [task |-> i, path |-> tasks'[i].out] \in wopens'
           /\ fs'[tasks'[i].out].kind = "bundle")
              => FrameKept(fs, tasks[i], LoadObjects(fs, tasks[i].input),
                           fs'[tasks'[i].out].objs, proc.types)]_vars

\* a repack wrote a container in which one payload is new and the payload
\* of an object without asset file is the old one
C12_Witness ==
    \E i \in DOMAIN tasks :
        /\ IsRepackKind(tasks[i])
        /\ tasks[i].pc = "done"
        /\ tasks[i].result
        /\ tasks[i].out # tasks[i].input
        /\ IsFile(fs, tasks[i].out)
        /\ fs[tasks[i].out].kind = "bundle"
        /\ LET objsIn == LoadObjects(fs, tasks[i].input)
               objsOut == fs[tasks[i].out].objs
           IN  /\ \E k \in DOMAIN objsIn :
                      objsOut[k].payload # objsIn[k].payload
               /\ \E k \in DOMAIN objsIn :
                      /\ objsIn[k].type = "Texture2D"
                      /\ ~SafeHasAssetFile(fs, objsIn[k],
                                           ModifiedFolder(tasks[i]))
                      /\ ~AdvHasAssetFile(fs, objsIn[k],
                                          ModifiedFolder(tasks[i]), proc.types)
                      /\ objsOut[k].payload = objsIn[k].payload

(***************************************************************************)
(* C13.  The ledger in memory, safe pipeline, one process: once its calls  *)
(* of repack have returned, mod_log holds exactly one record for each call *)
(* that returned True and none for a call that returned False; the changes *)
(* of a record are not empty and follow the order of the objects in the    *)
(* container; and the output container of a record is on disk, written by  *)
(* the call, when the record is in the list.                               *)
(***************************************************************************)
\* the records of mod_log that name the input of call i
RecordsOf(i) ==
    {n \in DOMAIN mod_log :
        mod_log[n].original = Basename(tasks[i].input)}

\* changes lists objects of objs in the order of objs
InObjectOrder(objs, changes) ==
    \E pos \in [DOMAIN changes -> DOMAIN objs] :
        /\ \A a, b \in DOMAIN changes : a < b => pos[a] < pos[b]
        /\ \A a \in DOMAIN changes : changes[a].name = objs[pos[a]].m_Name

C13_LedgerMatchesResults ==
    proc.tool = "safe" =>
        /\ \A i \in DOMAIN tasks :
               tasks[i].kind = "repack" /\ tasks[i].pc = "done" =>
                   Cardinality(RecordsOf(i)) = IF tasks[i].result THEN 1 ELSE 0
        /\ \A n \in DOMAIN mod_log :
               \E i \in DOMAIN tasks :
                   /\ tasks[i].kind = "repack"
                   /\ n \in RecordsOf(i)
                   /\ mod_log[n] = LogEntry(tasks[i].input, tasks[i].out,
                                            tasks[i].changes)
                   /\ mod_log[n].changes # <<>>
                   /\ [task |-> i, path |-> tasks[i].out] \in wopens
                   /\ IsFile(fs, tasks[i].out)
                   /\ fs[tasks[i].out].kind = "bundle"
                   /\ InObjectOrder(fs[tasks[i].out].objs, mod_log[n].changes)

(***************************************************************************)
(* C14.  Extraction and repack agree on paths, both tools: for every       *)
(* texture and text object that an extraction wrote, the file written is   *)
(* the file a repack given the folder of that extraction loads for the     *)
(* object, whatever the layout (per-type folders or --flat) and whatever   *)
(* extension the extraction chose.                                         *)
(***************************************************************************)
\* the folder extraction call t writes to
ExtractFolder(t) ==
    IF t.kind = "unpack" THEN ExtractedDir(t.input)
    ELSE IF t.folder # <<>> THEN t.folder
    ELSE Abspath(proc.cwd,
                 RelPath(<<Stem(Basename(t.input)) \o <<"_extracted">>>>))

\* the file extraction call t writes for object o
ExtractedFile(t, o) ==
    IF t.kind = "unpack"
    THEN IF o.type = "Texture2D"
         THEN _extract_texture(o, Join(ExtractFolder(t), <<"Textures">>))
         ELSE _extract_text_asset(o, Join(ExtractFolder(t), <<"TextAssets">>))
    ELSE LET sp == SavePath(o, ExtractFolder(t), proc.flat)
         IN  Join(sp.dir, sp.name \o <<ExtractExt(o.type)>>)

\* the file a repack that is given the folder of extraction call t loads
\* for the k-th object o, on the disk f (<<>>: none)
RepackedFile(f, t, o, k) ==
    IF t.kind = "unpack"
    THEN IF o.type = "Texture2D"
         THEN _replace_texture(f, o, k, Join(ExtractFolder(t), <<"Textures">>),
                               NoFail)
         ELSE _replace_text_asset(f, o, k,
                                  Join(ExtractFolder(t), <<"TextAssets">>),
                                  NoFail)
    ELSE LET file_path ==
                 Join(Join(ExtractFolder(t), <<o.type>>),
                      get_object_name(DataOf(o), o.type, o.path_id)
                          \o <<ExtractExt(o.type)>>)
         IN  IF IsFile(f, file_path) THEN file_path ELSE <<>>

C14_ExtractRepackPathsAgree ==
    \A i \in DOMAIN tasks :
        tasks[i].kind \in {"unpack", "extract"} /\ tasks[i].pc = "done" =>
            \A k \in tasks[i].done :
                LET o == LoadObjects(fs, tasks[i].input)[k]
                IN  o.type \in {"Texture2D", "TextAsset"} =>
                        /\ [task |-> i, path |-> ExtractedFile(tasks[i], o)]
                               \in wopens
                        /\ RepackedFile(fs, tasks[i], o, k)
                               = ExtractedFile(tasks[i], o)

(***************************************************************************)
(* C15.  The outputs of a batch are disjoint: in a run of batch-unpack,    *)
(* batch-repack, extract-all or repack-all, two different input containers *)
(* are never given the same output folder or output file, and the output   *)
(* of one item is never the input container of another item.               *)
(***************************************************************************)
IsBatch ==
    \/ proc.tool = "safe" /\ Lower(proc.cmd) \in {"batch-unpack", "batch-repack"}
    \/ proc.tool = "adv" /\ proc.cmd \in {"extract-all", "repack-all"}

\* the folder or file item t of a batch writes its output to
BatchOutput(t) ==
    IF t.kind = "unpack" THEN ExtractedDir(t.input)
    ELSE IF t.kind = "repack" THEN OutputPath(t.input)
    ELSE IF t.kind = "extract" THEN t.folder
    ELSE t.out

C15_BatchOutputsDisjoint ==
    IsBatch =>
        \A i, j \in DOMAIN tasks :
            i # j =>
                /\ tasks[i].input # tasks[j].input
                /\ BatchOutput(tasks[i]) # BatchOutput(tasks[j])
                /\ BatchOutput(tasks[i]) # tasks[j].input

====
